---- MODULE Spec2Model ----
(***************************************************************************)
(* DepGraphX: the entity / scope extraction and dependency correlation of  *)
(* CodeScanner (src/modules/code_scanner.py) and the Neo4j persister       *)
(* (src/modules/graph_db.py).                                              *)
(*                                                                         *)
(* A source file is a sequence of lexical tokens; one token is one "byte", *)
(* so the byte offset of a token is its position in the file, counted from *)
(* 0.  A declaration that opens a body (class, method) runs up to and      *)
(* including its matching "end" token.  A text (a name, a path, a callee)  *)
(* is a tuple of one-character strings.                                    *)
(***************************************************************************)
EXTENDS Naturals, Sequences, FiniteSets, Bags, TLC

\* Bounds of the model.
MaxNodes == 4   \* syntax nodes (declarations, calls, imports) in one project
MaxFiles == 2   \* files in one project
MaxIfaces == 2  \* interfaces one class declaration names

----------------------------------------------------------------------------
(* Texts *)

NoText == <<>>
Digits == <<"1", "2", "3", "4", "5", "6", "7", "8", "9">>
ClassName(k) == <<"C", Digits[k]>>
MethodName(k) == <<"m", Digits[k]>>
ObjName(k) == <<"o", Digits[k]>>
CalleeName(k) == <<"f", Digits[k]>>
IfaceName(k) == <<"I", Digits[k]>>
PathName(k) == <<"p", ".", "q", Digits[k]>>
Quoted(q, t) == <<q>> \o t \o <<q>>

----------------------------------------------------------------------------
(* Source files: tokens *)

TClass(name, ifaces, parent) ==
    [k |-> "class", name |-> name, ifaces |-> ifaces, parent |-> parent]
TMethod(name) == [k |-> "method", name |-> name]
TEnd == [k |-> "end"]
TCall(obj, meth) == [k |-> "call", obj |-> obj, meth |-> meth]
TBare(meth) == [k |-> "bare", meth |-> meth]
TImport(form, path) == [k |-> "import", form |-> form, path |-> path]

IsOpen(tok) == tok.k \in {"class", "method"}

\* The position of the "end" token that closes the body opened before j.
RECURSIVE Close(_, _, _)
Close(src, j, depth) ==
    IF src[j].k = "end"
    THEN IF depth = 0 THEN j ELSE Close(src, j + 1, depth - 1)
    ELSE Close(src, j + 1, IF IsOpen(src[j]) THEN depth + 1 ELSE depth)

NodeType(tok) ==
    CASE tok.k = "class" -> "class_declaration"
      [] tok.k = "method" -> "method_declaration"
      [] tok.k \in {"call", "bare"} -> "call"
      [] tok.k = "import" -> "import"

\* The syntax node of the token at position i (1-based): its byte span is
\* [start_byte, end_byte).  `field` (with `sub`, for the j-th interface) is
\* the part of the token the node covers: the whole declaration or a name.
NodeAt(src, i, field, sub) ==
    [type |-> NodeType(src[i]),
     start_byte |-> i - 1,
     end_byte |-> IF IsOpen(src[i]) THEN Close(src, i + 1, 0) ELSE i,
     field |-> field, sub |-> sub]

DeclPositions(src) == {i \in 1..Len(src) : src[i].k # "end"}

RECURSIVE SortedSeq(_)
SortedSeq(S) ==
    IF S = {} THEN <<>>
    ELSE LET m == CHOOSE x \in S : \A y \in S : x <= y
         IN <<m>> \o SortedSeq(S \ {m})

\* tree.root_node walked depth first, parents before children: for properly
\* nested spans that is the order of the start offsets.
PreOrder(src) ==
    LET pos == SortedSeq(DeclPositions(src))
    IN [n \in 1..Len(pos) |-> NodeAt(src, pos[n], "decl", 0)]

----------------------------------------------------------------------------
(* Values with a Python type: bytes and str *)

Bytes(data) == [kind |-> "bytes", data |-> data]
Str(data) == [kind |-> "str", data |-> data]
Raised(what) == [raised |-> TRUE, what |-> what]
Value(v) == [raised |-> FALSE, value |-> v]

FieldText(tok, field, sub) ==
    CASE field = "name" -> tok.name
      [] field = "object" -> tok.obj
      [] field = "method" -> tok.meth
      [] field = "path" -> tok.path
      [] field = "interface" -> tok.ifaces[sub]
      [] field = "parent" -> tok.parent
      [] OTHER -> NoText

\* source_code[node.start_byte:node.end_byte].decode('utf-8'): a slice of
\* bytes decodes to the text of the node; a str has no decode().
_get_node_text(node, source_code) ==
    IF source_code.kind = "bytes"
    THEN Value(FieldText(source_code.data[node.start_byte + 1], node.field, node.sub))
    ELSE Raised("AttributeError")

----------------------------------------------------------------------------
(* The graph store (graph_db.py).  Nodes and relationships are bags, so that *)
(* a node created twice is in the store twice.                              *)

EmptyGraph == [nodes |-> EmptyBag, rels |-> EmptyBag]

GNode(label, props) == [label |-> label, props |-> props]
GRel(type, from, to) == [type |-> type, from |-> from, to |-> to]

\* The nodes of the store a Cypher node pattern (label {props}) matches.
Matches(g, label, props) ==
    {n \in BagToSet(g.nodes) :
        /\ n.label = label
        /\ \A key \in DOMAIN props :
              key \in DOMAIN n.props /\ n.props[key] = props[key]}

\* MERGE (n:label {props}): creates the node unless the pattern matches.
MergeNode(g, label, props) ==
    IF Matches(g, label, props) # {}
    THEN g
    ELSE [g EXCEPT !.nodes = @ (+) SetToBag({GNode(label, props)})]

\* MERGE (a)-[:type]->(b) for every row (a, b) of froms x tos.
MergeRels(g, type, froms, tos) ==
    LET new == {GRel(type, a, b) : a \in froms, b \in tos} \ BagToSet(g.rels)
    IN [g EXCEPT !.rels = @ (+) SetToBag(new)]

\* MATCH rows `froms`, then MERGE (b:label {props}) and MERGE (a)-[:type]->(b):
\* with no row matched the MERGE clauses do not run.
MatchThenMerge(g, froms, label, props, type) ==
    IF froms = {}
    THEN g
    ELSE LET g1 == MergeNode(g, label, props)
         IN MergeRels(g1, type, froms, Matches(g1, label, props))

\* Mutant: CREATE in place of MERGE.
_create_class_node_transaction_create(g, class_name, file_path) ==
    [g EXCEPT !.nodes = @ (+) SetToBag({GNode("Class", [name |-> class_name,
                                                         file |-> file_path])})]

_create_class_node_transaction(g, class_name, file_path) ==
    MergeNode(g, "Class", [name |-> class_name, file |-> file_path])

_create_method_node_transaction(g, method_name, class_name, file_path) ==
    LET mp == [name |-> method_name, class |-> class_name, file |-> file_path]
        cp == [name |-> class_name, file |-> file_path]
        g1 == MergeNode(g, "Method", mp)
        g2 == MergeNode(g1, "Class", cp)
    IN MergeRels(g2, "HAS_METHOD", Matches(g2, "Class", cp), Matches(g2, "Method", mp))

\* str.split('.', 1): the parts around the first '.', one part if there is none.
RECURSIVE FirstDot(_, _)
FirstDot(t, i) ==
    IF i > Len(t) THEN 0 ELSE IF t[i] = "." THEN i ELSE FirstDot(t, i + 1)
Split1(t) ==
    LET d == FirstDot(t, 1)
    IN IF d = 0 THEN <<t>> ELSE <<SubSeq(t, 1, d - 1), SubSeq(t, d + 1, Len(t))>>

RECURSIVE MergeInterfaces(_, _, _)
MergeInterfaces(g, dep, i) ==
    IF i > Len(dep.interfaces)
    THEN g
    ELSE MergeInterfaces(
             MatchThenMerge(g, Matches(g, "Class", [name |-> dep.class, file |-> dep.file]),
                            "Interface", [name |-> dep.interfaces[i]], "IMPLEMENTS"),
             dep, i + 1)

_create_dependency_transaction(g, dep) ==
    CASE dep.type = "method_call" ->
           IF Len(Split1(dep.callee)) # 2
           THEN g
           ELSE LET classes == Matches(g, "Class", [name |-> dep.caller_class])
                    callers == {m \in Matches(g, "Method", [name |-> dep.caller_method]) :
                                   \E c \in classes :
                                       BagIn(GRel("BELONGS_TO", m, c), g.rels)}
                IN MatchThenMerge(g, callers, "Method", [name |-> dep.callee], "CALLS")
      [] dep.type = "import" ->
           MatchThenMerge(g, Matches(g, "Class", [file |-> dep.file]),
                          "Import", [path |-> dep.import_path], "IMPORTS")
      [] dep.type = "inheritance" ->
           IF "interfaces" \in DOMAIN dep
           THEN MergeInterfaces(g, dep, 1)
           ELSE IF "parent" \in DOMAIN dep
           THEN MatchThenMerge(g, Matches(g, "Class", [name |-> dep.class, file |-> dep.file]),
                               "Class", [name |-> dep.parent], "EXTENDS")
           ELSE g

\* The outcome of a public method: the store after it, whether an exception
\* leaves the method, and the level of what it logged.
Outcome(g, raised, logged) == [graph |-> g, raised |-> raised, logged |-> logged]

\* try: with self.driver.session() as session: session.execute_write(...)
\* except Exception as e: self.logger.error(...).  With the store unavailable
\* the session raises, no statement is committed, the error is logged and the
\* method returns.
TryWrite(g, committed, available) ==
    IF available THEN Outcome(committed, FALSE, "info") ELSE Outcome(g, FALSE, "error")

\* Mutant: the except clause raises the exception again after logging it.
create_class_node_reraise(g, class_name, file_path, available) ==
    IF available
    THEN Outcome(_create_class_node_transaction(g, class_name, file_path), FALSE, "info")
    ELSE Outcome(g, TRUE, "error")

create_class_node(g, class_name, file_path, available) ==
    TryWrite(g, _create_class_node_transaction(g, class_name, file_path), available)
create_method_node(g, method_name, class_name, file_path, available) ==
    TryWrite(g, _create_method_node_transaction(g, method_name, class_name, file_path),
             available)
create_dependency(g, dep, available) ==
    TryWrite(g, _create_dependency_transaction(g, dep), available)
_clear_db_transaction(g) == EmptyGraph

----------------------------------------------------------------------------
(* The scanner (code_scanner.py) *)

None == [none |-> TRUE]

supported_extensions == {".java", ".ts", ".tsx"}
LangOf(ext) == IF ext = ".java" THEN "java" ELSE "typescript"

\* A path is a stem and a suffix; Path(file).suffix is the suffix.
FilePath(stem, suffix) == [stem |-> stem, suffix |-> suffix]
Suffix(path) == path.suffix

\* The first element of seq that satisfies a test, or None: next(..., None)
\* and the loop with an early return.
\* hits are the positions of the elements that satisfy the test.
FirstWhere(seq, hits) ==
    IF hits = {} THEN None
    ELSE seq[CHOOSE i \in hits : \A j \in hits : i <= j]

\* The store is available to the next persister call of the scan: st.fails
\* holds the positions, among the calls of the scan, of those it is not
\* available to.
Available(st) == (Len(st.log) + 1) \notin st.fails

\* The state after a persister call with the given outcome.
Called(st, op, args, out) ==
    [st EXCEPT !.graph = out.graph,
               !.raised = out.raised,
               !.log = Append(@, [op |-> op, args |-> args, logged |-> out.logged])]

\* _extract_entities on one node, without the recursion into its children.
\* st holds the entities, the graph store, the persister calls made, the
\* calls the store is unavailable to, and whether an exception is propagating
\* (then nothing more runs).
VisitNode(node, source_code, st, file_path) ==
    IF st.raised
    THEN st
    ELSE IF node.type = "class_declaration"
    THEN LET class_name == _get_node_text([node EXCEPT !.field = "name"], source_code).value
             st1 == [st EXCEPT !.entities.classes =
                        Append(@, [name |-> class_name, file |-> file_path,
                                   start_byte |-> node.start_byte,
                                   end_byte |-> node.end_byte])]
         IN Called(st1, "create_class_node", <<class_name, file_path>>,
                   create_class_node(st.graph, class_name, file_path, Available(st)))
    ELSE IF node.type = "method_declaration"
    THEN LET method_name == _get_node_text([node EXCEPT !.field = "name"], source_code).value
             Encloses(cls) == cls.start_byte <= node.start_byte
                              /\ node.start_byte < cls.end_byte
             classes == st.entities.classes
             current_class ==
                 FirstWhere(classes, {i \in 1..Len(classes) : Encloses(classes[i])})
         IN IF current_class # None
            THEN LET st1 == [st EXCEPT !.entities.methods =
                                Append(@, [name |-> method_name,
                                           class |-> current_class.name,
                                           file |-> file_path,
                                           start_byte |-> node.start_byte,
                                           end_byte |-> node.end_byte])]
                 IN Called(st1, "create_method_node",
                           <<method_name, current_class.name, file_path>>,
                           create_method_node(st.graph, method_name, current_class.name,
                                              file_path, Available(st)))
            ELSE st
    ELSE st

RECURSIVE ExtractWalk(_, _, _, _, _)
ExtractWalk(nodes, i, source_code, st, file_path) ==
    IF i > Len(nodes) THEN st
    ELSE ExtractWalk(nodes, i + 1, source_code,
                     VisitNode(nodes[i], source_code, st, file_path), file_path)

\* _extract_entities(tree.root_node, ...): the walk of the whole tree.
_extract_entities(tree, source_code, st, file_path) ==
    ExtractWalk(tree, 1, source_code, st, file_path)

\* Mutant: the last candidate around the offset, the innermost one.
_find_enclosing_entity_last(node_byte, entities, file_path, entity_type) ==
    LET InFile(e) == e.file = file_path
        candidates == SelectSeq(entities[entity_type], InFile)
        hits == {i \in 1..Len(candidates) :
                    /\ candidates[i].start_byte <= node_byte
                    /\ node_byte < candidates[i].end_byte}
    IN IF hits = {} THEN None
       ELSE candidates[CHOOSE i \in hits : \A j \in hits : j <= i]

\* Mutant: the candidates are not restricted to the file.
_find_enclosing_entity_any_file(node_byte, entities, file_path, entity_type) ==
    LET Encloses(e) == e.start_byte <= node_byte /\ node_byte < e.end_byte
        candidates == entities[entity_type]
    IN FirstWhere(candidates, {i \in 1..Len(candidates) : Encloses(candidates[i])})

_find_enclosing_entity(node_byte, entities, file_path, entity_type) ==
    LET InFile(e) == e.file = file_path
        candidates == SelectSeq(entities[entity_type], InFile)
        Encloses(e) == e.start_byte <= node_byte /\ node_byte < e.end_byte
    IN FirstWhere(candidates, {i \in 1..Len(candidates) : Encloses(candidates[i])})

----------------------------------------------------------------------------
(* QUERIES and query.captures: the (node, tag) pairs of every match of a     *)
(* query, match after match in the order of the file.                       *)

Capture(src, i, field, sub, tag) == [node |-> NodeAt(src, i, field, sub), tag |-> tag]

\* The captures of the matches of query `query_type` at the token i.
MatchCaptures(src, i, lang, query_type) ==
    LET tok == src[i]
    IN CASE query_type = "method_calls" ->
              \* an invocation whose object is an identifier
              IF tok.k = "call"
              THEN << Capture(src, i, "decl", 0, "call"),
                      Capture(src, i, "object", 0, "object"),
                      Capture(src, i, "method", 0, "method") >>
              ELSE << >>
         [] query_type = "imports" ->
              IF tok.k # "import" THEN << >>
              ELSE IF lang = "java"
              THEN << Capture(src, i, "path", 0, "import_path") >>
              ELSE (CASE tok.form = "default" ->
                           << Capture(src, i, "decl", 0, "import_default") >>
                      [] tok.form = "named" ->
                           << Capture(src, i, "decl", 0, "named_imports") >>
                      [] tok.form = "wildcard" ->
                           << Capture(src, i, "decl", 0, "wildcard") >>)
                   \o << Capture(src, i, "path", 0, "module_path") >>
         [] query_type = "inheritance" ->
              IF tok.k # "class" THEN << >>
              ELSE IF lang = "java"
              THEN \* one match for every interface of the declaration
                   LET RECURSIVE PerInterface(_)
                       PerInterface(j) ==
                           IF j > Len(tok.ifaces) THEN << >>
                           ELSE << Capture(src, i, "name", 0, "class_name"),
                                   Capture(src, i, "interface", j, "interface") >>
                                \o PerInterface(j + 1)
                   IN PerInterface(1)
              ELSE IF tok.parent # NoText
              THEN << Capture(src, i, "parent", 0, "parent") >>
              ELSE << >>

RECURSIVE CapturesFrom(_, _, _, _)
CapturesFrom(src, i, lang, query_type) ==
    IF i > Len(src) THEN << >>
    ELSE (IF src[i].k = "end" THEN << >> ELSE MatchCaptures(src, i, lang, query_type))
         \o CapturesFrom(src, i + 1, lang, query_type)

Captures(src, lang, query_type) == CapturesFrom(src, 1, lang, query_type)

QueryTypes == <<"method_calls", "imports", "inheritance">>

----------------------------------------------------------------------------
(* _process_dependency *)

\* The value a variable holds after `for n, t in captures: if t == tag: v = text(n)`:
\* the text of the last capture with that tag, None if there is none.
LastTagged(captures, tag, source_code) ==
    LET hits == {i \in 1..Len(captures) : captures[i].tag = tag}
    IN IF hits = {} THEN None
       ELSE _get_node_text(captures[CHOOSE i \in hits : \A j \in hits : j <= i].node,
                           source_code).value

\* The same loop with a break: the first capture with that tag.
FirstTagged(captures, tag, source_code) ==
    LET hits == {i \in 1..Len(captures) : captures[i].tag = tag}
    IN IF hits = {} THEN None
       ELSE _get_node_text(captures[CHOOSE i \in hits : \A j \in hits : i <= j].node,
                           source_code).value

AllTagged(captures, tag, source_code) ==
    LET IsTag(c) == c.tag = tag
        sel == SelectSeq(captures, IsTag)
    IN [j \in 1..Len(sel) |-> _get_node_text(sel[j].node, source_code).value]

IsQuote(ch) == ch \in {"'", "\""}
\* str.strip('\'"'): the quote characters at both ends removed.
RECURSIVE StripQuotes(_)
StripQuotes(t) ==
    IF t = << >> THEN t
    ELSE IF IsQuote(t[1]) THEN StripQuotes(Tail(t))
    ELSE IF IsQuote(t[Len(t)]) THEN StripQuotes(SubSeq(t, 1, Len(t) - 1))
    ELSE t

Truthy(v) == v # None /\ v # << >>

\* The tags of QUERIES for which tag.startswith("import") is true.
StartsWithImport(tag) == tag \in {"import_default", "import_path"}

CallDependency(node, captures, source_code, entities, file_path) ==
    LET method_name == LastTagged(captures, "method", source_code)
        object_name == LastTagged(captures, "object", source_code)
    IN IF Truthy(method_name) /\ Truthy(object_name)
       THEN LET callee == object_name \o <<".">> \o method_name
                enclosing_class ==
                    _find_enclosing_entity(node.start_byte, entities, file_path, "classes")
                enclosing_method ==
                    _find_enclosing_entity(node.start_byte, entities, file_path, "methods")
            IN IF enclosing_class # None /\ enclosing_method # None
               THEN << [type |-> "method_call",
                        caller_class |-> enclosing_class.name,
                        caller_method |-> enclosing_method.name,
                        callee |-> callee,
                        file |-> file_path] >>
               ELSE << >>
       ELSE << >>

\* The dependencies one (node, tag) pair of the loop appends.
CaptureDependencies(node, tag, captures, lang, source_code, entities, file_path) ==
    IF lang = "java"
    THEN CASE tag = "call" ->
                CallDependency(node, captures, source_code, entities, file_path)
           [] tag = "import_path" ->
                << [type |-> "import", file |-> file_path,
                    import_path |-> _get_node_text(node, source_code).value] >>
           [] tag = "class_name" ->
                << [type |-> "inheritance",
                    class |-> _get_node_text(node, source_code).value,
                    file |-> file_path,
                    interfaces |-> AllTagged(captures, "interface", source_code)] >>
           [] OTHER -> << >>
    ELSE IF lang = "typescript"
    THEN CASE tag = "call" ->
                CallDependency(node, captures, source_code, entities, file_path)
           [] tag # "call" /\ StartsWithImport(tag) ->
                LET first == FirstTagged(captures, "module_path", source_code)
                    module_path == IF first = None THEN None ELSE StripQuotes(first)
                IN IF Truthy(module_path)
                   THEN << [type |-> "import", file |-> file_path,
                            import_path |-> module_path] >>
                   ELSE << >>
           [] tag = "parent" ->
                LET enclosing_class ==
                        _find_enclosing_entity(node.start_byte, entities, file_path, "classes")
                IN IF enclosing_class # None
                   THEN << [type |-> "inheritance",
                            class |-> enclosing_class.name,
                            file |-> file_path,
                            parent |-> _get_node_text(node, source_code).value] >>
                   ELSE << >>
           [] OTHER -> << >>
    ELSE << >>

RECURSIVE ProcessFrom(_, _, _, _, _, _)
ProcessFrom(captures, i, lang, source_code, entities, file_path) ==
    IF i > Len(captures) THEN entities
    ELSE ProcessFrom(captures, i + 1, lang, source_code,
                     [entities EXCEPT !.dependencies =
                         @ \o CaptureDependencies(captures[i].node, captures[i].tag,
                                                  captures, lang, source_code,
                                                  entities, file_path)],
                     file_path)

\* Mutant: the dependencies of the captures replace the list.
_process_dependency_replace(captures, lang, source_code, entities, file_path) ==
    ProcessFrom(captures, 1, lang, source_code,
                [entities EXCEPT !.dependencies = << >>], file_path)

_process_dependency(captures, lang, source_code, entities, file_path) ==
    ProcessFrom(captures, 1, lang, source_code, entities, file_path)

----------------------------------------------------------------------------
(* The file system: a directory is a sequence of files (path, content) in   *)
(* the order os.walk lists them.                                            *)

FileEntry(path, src) == [path |-> path, src |-> src]

\* open(file_path, 'rb').read()
ReadFile(dir, file_path) ==
    LET hits == {i \in 1..Len(dir) : dir[i].path = file_path}
    IN IF hits = {} THEN Raised("FileNotFoundError")
       ELSE Value(Bytes(dir[CHOOSE i \in hits : TRUE].src))

_get_files(dir) ==
    LET Supported(f) == Suffix(f.path) \in supported_extensions
        kept == SelectSeq(dir, Supported)
    IN [i \in 1..Len(kept) |-> kept[i].path]

\* parser.parse(source_code): the syntax tree, as its nodes in pre-order.
_parse_file(dir, file_path) ==
    LET read == ReadFile(dir, file_path)
    IN IF read.raised THEN read ELSE Value(PreOrder(read.value.data))

----------------------------------------------------------------------------
(* scan_project *)

EmptyEntities == [classes |-> << >>, methods |-> << >>, dependencies |-> << >>]

RECURSIVE RunQueries(_, _, _, _, _, _)
RunQueries(q, src, lang, source_code, entities, file_path) ==
    IF q > Len(QueryTypes) THEN entities
    ELSE RunQueries(q + 1, src, lang, source_code,
                    _process_dependency(Captures(src, lang, QueryTypes[q]), lang,
                                        source_code, entities, file_path),
                    file_path)

\* One iteration of `for dependency in entities['dependencies']` (268-269).
PersistBody(st, dependency) ==
    IF st.raised
    THEN st
    ELSE Called(st, "create_dependency", <<dependency>>,
                create_dependency(st.graph, dependency, Available(st)))

\* Lines 257-266: parse, extract the entities, run the three queries.
ExtractAndQuery(dir, st, file_path) ==
    LET tree == _parse_file(dir, file_path).value
        source_code == ReadFile(dir, file_path).value
        st1 == _extract_entities(tree, source_code, st, file_path)
        lang == LangOf(Suffix(file_path))
    IN IF st1.raised
       THEN st1
       ELSE [st1 EXCEPT !.entities =
                RunQueries(1, source_code.data, lang, source_code, @, file_path)]

RECURSIVE PersistFrom(_, _)
PersistFrom(st, i) ==
    IF i > Len(st.entities.dependencies) THEN st
    ELSE PersistFrom(PersistBody(st, st.entities.dependencies[i]), i + 1)

\* Mutant: the create_dependency loop indented into the loop over the files.
ScanFileBodyEager(dir, st, file_path) ==
    IF Suffix(file_path) \notin supported_extensions
    THEN st
    ELSE PersistFrom(ExtractAndQuery(dir, st, file_path),
                     Len(st.entities.dependencies) + 1)

\* One iteration of `for file_path in files` (lines 251-266).
ScanFileBody(dir, st, file_path) ==
    IF Suffix(file_path) \notin supported_extensions
    THEN st
    ELSE ExtractAndQuery(dir, st, file_path)

----------------------------------------------------------------------------
(* get_method_source *)

MethodCaptures(src) ==
    LET pos == SortedSeq({i \in 1..Len(src) : src[i].k = "method"})
        RECURSIVE Each(_)
        Each(n) == IF n > Len(pos) THEN << >>
                   ELSE << Capture(src, pos[n], "decl", 0, "method"),
                           Capture(src, pos[n], "name", 0, "method_name") >>
                        \o Each(n + 1)
    IN Each(1)

\* node.parent of a method's name node: the method declaration.
ParentDecl(src, node) == NodeAt(src, node.start_byte + 1, "decl", 0)

RECURSIVE FindMethod(_, _, _, _, _)
FindMethod(captures, i, method_name, source_code_bytes, source_code) ==
    IF i > Len(captures) THEN Value(None)
    ELSE IF captures[i].tag = "method_name"
    THEN LET current == _get_node_text(captures[i].node, source_code)
         IN IF current.raised THEN current
            ELSE IF current.value = method_name
            THEN LET decl == ParentDecl(source_code_bytes.data, captures[i].node)
                 IN Value(Str(SubSeq(source_code_bytes.data,
                                     decl.start_byte + 1, decl.end_byte)))
            ELSE FindMethod(captures, i + 1, method_name, source_code_bytes, source_code)
    ELSE FindMethod(captures, i + 1, method_name, source_code_bytes, source_code)

get_method_source(dir, method_name, file_path) ==
    IF Suffix(file_path) \notin supported_extensions
    THEN None
    ELSE LET tree == _parse_file(dir, file_path)
         IN IF tree.raised THEN None     \* except Exception: log, return None
            ELSE LET source_code_bytes == ReadFile(dir, file_path).value
                     source_code == Str(source_code_bytes.data)
                     found == FindMethod(MethodCaptures(source_code_bytes.data), 1,
                                         method_name, source_code_bytes, source_code)
                 IN IF found.raised THEN None ELSE found.value

----------------------------------------------------------------------------
(* The projects scanned.  A shape is a file without its names: a sequence   *)
(* of items, bodies closed by "end".  Render gives the k-th class, method,  *)
(* call, interface and import of a file the k-th name of its kind, so that  *)
(* any two declarations of a file differ in their names.                    *)

Item(k, n, form) == [k |-> k, n |-> n, form |-> form]
EndItem == Item("end", 0, "")

RECURSIVE Forest(_, _, _), Tree(_, _, _)
\* The shapes with n nodes: a first tree of m nodes, then a shape of n - m.
Forest(n, Cont, Leaf) ==
    IF n = 0 THEN {<< >>}
    ELSE UNION { {t \o f : t \in Tree(m, Cont, Leaf), f \in Forest(n - m, Cont, Leaf)} :
                 m \in 1..n }
\* The trees with n nodes: a leaf, or a body of n - 1 nodes in a container.
Tree(n, Cont, Leaf) ==
    (IF n = 1 THEN {<<l>> : l \in Leaf} ELSE {})
    \cup {<<c>> \o f \o <<EndItem>> : c \in Cont, f \in Forest(n - 1, Cont, Leaf)}

Ordinal(shape, i) == Cardinality({j \in 1..i : shape[j].k = shape[i].k})
RECURSIVE IfacesBefore(_, _)
IfacesBefore(shape, i) ==
    IF i = 0 THEN 0
    ELSE IfacesBefore(shape, i - 1) + (IF shape[i].k = "class" THEN shape[i].n ELSE 0)

RenderItem(shape, i, lang) ==
    LET it == shape[i]
        k == Ordinal(shape, i)
    IN CASE it.k = "class" ->
              TClass(ClassName(k),
                     [j \in 1..it.n |-> IfaceName(IfacesBefore(shape, i - 1) + j)],
                     IF it.form = "extends" THEN <<"P">> \o ClassName(k) ELSE NoText)
         [] it.k = "method" -> TMethod(MethodName(k))
         [] it.k = "call" -> TCall(ObjName(k), CalleeName(k))
         [] it.k = "bare" -> TBare(CalleeName(k))
         [] it.k = "import" ->
              TImport(it.form,
                      IF lang = "java" THEN PathName(k)
                      ELSE Quoted(IF k % 2 = 1 THEN "'" ELSE "\"", PathName(k)))
         [] it.k = "end" -> TEnd

Render(shape, lang) == [i \in 1..Len(shape) |-> RenderItem(shape, i, lang)]

\* The files with n nodes of a family: [suffix, src].
FilesOf(n, family) ==
    LET File(suffix, shapes) ==
            {[suffix |-> suffix, src |-> Render(sh, LangOf(suffix))] : sh \in shapes}
        class == Item("class", 0, "")
    IN CASE family = "struct" ->
              File(".java", Forest(n, {class, Item("method", 0, "")},
                                      {Item("call", 0, ""), Item("bare", 0, "")}))
              \cup (IF n = 1 THEN File(".txt", {<<class, EndItem>>}) ELSE {})
         [] family = "calls" ->
              File(".java", Forest(n, {class, Item("method", 0, "")}, {Item("call", 0, "")}))
         [] family = "imports" ->
              File(".java", Forest(n, {class}, {Item("import", 0, "scoped")}))
              \cup File(".ts", Forest(n, {class},
                                      {Item("import", 0, f) :
                                          f \in {"default", "named", "wildcard"}}))
         [] family = "inherit" ->
              File(".java", Forest(n, {Item("class", m, "") : m \in 0..MaxIfaces}, {}))
              \cup File(".ts", Forest(n, {class, Item("class", 0, "extends")}, {}))

\* The syntax nodes of the files of a directory.
RECURSIVE NodesIn(_)
NodesIn(d) ==
    IF d = << >> THEN 0
    ELSE Cardinality(DeclPositions(Head(d).src)) + NodesIn(Tail(d))

----------------------------------------------------------------------------
(* State *)

VARIABLES
    dir,        \* the project directory: the files on disk
    pc,         \* "edit" before the first scan, "scan" while scan_project
                \* runs, "idle" after it
    files,      \* scan_project: the list _get_files returned
    fi,         \* scan_project: the position in files of the next file
    di,         \* scan_project: the position of the next dependency to persist
    entities,   \* scan_project: classes, methods, dependencies
    graph,      \* the Neo4j store
    log,        \* the persister calls of the current scan, in order
    snap,       \* the store as the previous scan left it, None before it
    result      \* the last get_method_source call and what it returned

vars == <<dir, pc, files, fi, di, entities, graph, log, snap, result>>

Init ==
    /\ dir = << >>
    /\ pc = "edit"
    /\ files = << >>
    /\ fi = 1
    /\ di = 1
    /\ entities = EmptyEntities
    /\ graph = EmptyGraph
    /\ log = << >>
    /\ snap = None
    /\ result = None

\* Before the scan a file of the family is written to the project directory;
\* the file at position p is named by p.
AddFile(family) ==
    /\ pc = "edit"
    /\ Len(dir) < MaxFiles
    /\ \E n \in 1..(MaxNodes - NodesIn(dir)) :
          \E f \in FilesOf(n, family) :
              dir' = Append(dir, FileEntry(FilePath(<<"f", Digits[Len(dir) + 1]>>,
                                                    f.suffix), f.src))
    /\ UNCHANGED <<pc, files, fi, di, entities, graph, log, snap, result>>

\* main.py: clear_database before the scan.
ClearDatabase ==
    /\ pc = "idle"
    /\ graph # EmptyGraph
    /\ graph' = _clear_db_transaction(graph)
    /\ snap' = None
    /\ UNCHANGED <<dir, pc, files, fi, di, entities, log, result>>

\* scan_project, lines 248-249.
ScanStart ==
    /\ pc \in {"edit", "idle"}
    /\ dir # << >>
    /\ pc' = "scan"
    /\ entities' = EmptyEntities
    /\ files' = _get_files(dir)
    /\ fi' = 1
    /\ di' = 1
    /\ log' = << >>
    /\ result' = None
    /\ UNCHANGED <<dir, graph, snap>>

\* The state scan_project works on, with the persister calls of the scan
\* (by position) that find the store unavailable.
Working(fails) ==
    [entities |-> entities, graph |-> graph, log |-> log, fails |-> fails, raised |-> FALSE]

\* scan_project, lines 251-266: the next file.
ScanFile ==
    /\ pc = "scan"
    /\ fi <= Len(files)
    /\ LET st == ScanFileBody(dir, Working({}), files[fi])
       IN /\ entities' = st.entities
          /\ graph' = st.graph
          /\ log' = st.log
    /\ fi' = fi + 1
    /\ UNCHANGED <<dir, pc, files, di, snap, result>>

\* scan_project, lines 268-269: the next dependency.
PersistDependency ==
    /\ pc = "scan"
    /\ fi > Len(files)
    /\ di <= Len(entities.dependencies)
    /\ LET st == PersistBody(Working({}), entities.dependencies[di])
       IN /\ graph' = st.graph
          /\ log' = st.log
    /\ di' = di + 1
    /\ UNCHANGED <<dir, pc, files, fi, entities, snap, result>>

\* scan_project, line 271.
ScanReturn ==
    /\ pc = "scan"
    /\ fi > Len(files)
    /\ di > Len(entities.dependencies)
    /\ pc' = "idle"
    /\ snap' = graph
    /\ UNCHANGED <<dir, files, fi, di, entities, graph, log, result>>

\* The next file, with the store unavailable to one of the persister calls
\* made for it.  An exception that leaves a persister call ends scan_project.
ScanFileOutage ==
    /\ pc = "scan"
    /\ fi <= Len(files)
    /\ LET made == Len(ScanFileBody(dir, Working({}), files[fi]).log)
       IN \E k \in (Len(log) + 1)..made :
             LET st == ScanFileBody(dir, Working({k}), files[fi])
             IN /\ entities' = st.entities
                /\ graph' = st.graph
                /\ log' = st.log
                /\ pc' = IF st.raised THEN "idle" ELSE pc
                /\ fi' = IF st.raised THEN fi ELSE fi + 1
    /\ UNCHANGED <<dir, files, di, snap, result>>

\* The next dependency, with the store unavailable to create_dependency.
PersistDependencyOutage ==
    /\ pc = "scan"
    /\ fi > Len(files)
    /\ di <= Len(entities.dependencies)
    /\ LET st == PersistBody(Working({Len(log) + 1}), entities.dependencies[di])
       IN /\ graph' = st.graph
          /\ log' = st.log
          /\ pc' = IF st.raised THEN "idle" ELSE pc
          /\ di' = IF st.raised THEN di ELSE di + 1
    /\ UNCHANGED <<dir, files, fi, entities, snap, result>>

\* The first scan of a project.
FirstScan == pc = "edit" /\ ScanStart

MethodNames == {MethodName(1), MethodName(2)}
AskedPaths == {dir[i].path : i \in 1..Len(dir)} \cup {FilePath(<<"f", "0">>, ".java")}

GetMethodSource ==
    /\ pc = "idle"
    /\ \E method_name \in MethodNames, file_path \in AskedPaths :
          result' = [method_name |-> method_name, file_path |-> file_path,
                     value |-> get_method_source(dir, method_name, file_path)]
    /\ UNCHANGED <<dir, pc, files, fi, di, entities, graph, log, snap>>

\* scan_project, with the store cleared or not between two scans.
Scan ==
    \/ ClearDatabase
    \/ ScanStart
    \/ ScanFile
    \/ PersistDependency
    \/ ScanReturn

Next == AddFile("struct") \/ Scan \/ GetMethodSource
NextScan == AddFile("struct") \/ Scan
NextImports == AddFile("imports") \/ Scan
NextInherit == AddFile("inherit") \/ Scan
\* One scan, the store unavailable to any of its persister calls or to none.
NextOutage ==
    \/ AddFile("calls")
    \/ FirstScan
    \/ ScanFile
    \/ ScanFileOutage
    \/ PersistDependency
    \/ PersistDependencyOutage
    \/ ScanReturn

Spec == Init /\ [][Next]_vars
SpecScan == Init /\ [][NextScan]_vars
SpecImports == Init /\ [][NextImports]_vars
SpecInherit == Init /\ [][NextInherit]_vars
SpecOutage == Init /\ [][NextOutage]_vars

\* One scan of a project of classes, methods and calls, the store available.
NextCalls ==
    \/ AddFile("calls")
    \/ FirstScan
    \/ ScanFile
    \/ PersistDependency
    \/ ScanReturn
SpecCalls == Init /\ [][NextCalls]_vars

----------------------------------------------------------------------------
(* What the source files say, read off the tokens *)

\* The files the current scan has been through.
Scanned == {files[i] : i \in 1..(fi - 1)}
SrcOf(path) == ReadFile(dir, path).value.data

\* The declaration at position i of src spans the byte offset o.
Spans(src, i, o) ==
    LET n == NodeAt(src, i, "decl", 0) IN n.start_byte <= o /\ o < n.end_byte

\* The positions of the declarations of kind k around the offset o, and the
\* innermost of them (0 if there is none).
Around(src, o, k) == {i \in 1..Len(src) : src[i].k = k /\ Spans(src, i, o)}
Innermost(src, o, k) ==
    IF Around(src, o, k) = {} THEN 0
    ELSE CHOOSE i \in Around(src, o, k) : \A j \in Around(src, o, k) : j <= i

PositionsOf(src, k) == SortedSeq({i \in 1..Len(src) : src[i].k = k})

DepsOf(path, type) ==
    LET Is(d) == d.type = type /\ d.file = path
    IN SelectSeq(entities.dependencies, Is)

LogHas(op) == \E i \in 1..Len(log) : log[i].op = op

----------------------------------------------------------------------------
(* Claims *)

\* C1 (scope attribution): in every scanned file, a call with an object that
\* lies inside method m (the innermost method around it) of class c (the
\* innermost class around m) has a method_call edge with caller_class = c and
\* caller_method = m, also under nested classes and nested methods.
C1_ScopeAttribution ==
    \A path \in Scanned :
        LET src == SrcOf(path)
        IN \A i \in 1..Len(src) :
              src[i].k = "call" =>
                 LET m == Innermost(src, i - 1, "method")
                     c == IF m = 0 THEN 0 ELSE Innermost(src, m - 1, "class")
                     edges == DepsOf(path, "method_call")
                 IN (m # 0 /\ c # 0) =>
                       \E e \in 1..Len(edges) :
                           /\ edges[e].caller_class = src[c].name
                           /\ edges[e].caller_method = src[m].name

\* The calls of a file that yield an edge: those with an object, inside a
\* class entity and a method entity of the file, in the order of the file.
YieldingCalls(path) ==
    LET src == SrcOf(path)
    IN SortedSeq({i \in 1..Len(src) :
           /\ src[i].k = "call"
           /\ _find_enclosing_entity(i - 1, entities, path, "classes") # None
           /\ _find_enclosing_entity(i - 1, entities, path, "methods") # None})

\* C2 (callee correlation): the k-th method_call edge of a scanned file has
\* the callee "<object>.<method>" of the k-th call expression that yields an
\* edge, whatever other call expressions the file holds.
C2_CalleeCorrelation ==
    \A path \in Scanned :
        LET src == SrcOf(path)
            calls == YieldingCalls(path)
            edges == DepsOf(path, "method_call")
        IN /\ Len(edges) = Len(calls)
           /\ \A e \in 1..Len(edges) :
                 edges[e].callee = src[calls[e]].obj \o <<".">> \o src[calls[e]].meth

\* C3 (nesting, same-file ownership): every method entity names a class
\* entity of its own file whose span contains the whole span of the method;
\* so a method with no class of its own file around it is not emitted.
C3_MethodInOwnFileClass ==
    \A m \in 1..Len(entities.methods) :
        LET me == entities.methods[m]
        IN \E c \in 1..Len(entities.classes) :
              LET ce == entities.classes[c]
              IN /\ ce.file = me.file
                 /\ ce.name = me.class
                 /\ ce.start_byte <= me.start_byte
                 /\ me.end_byte <= ce.end_byte

\* C4 (innermost class of a method): the class recorded for a method is the
\* class of its file with the smallest span around the start of the method:
\* the inner class when classes are nested.
C4_InnermostClass ==
    \A m \in 1..Len(entities.methods) :
        LET me == entities.methods[m]
            src == SrcOf(me.file)
            c == Innermost(src, me.start_byte, "class")
        IN c # 0 => me.class = src[c].name

\* The calls of a file written inside a method and inside a class of the file.
CallsInScope(path) ==
    LET src == SrcOf(path)
    IN {i \in 1..Len(src) :
           /\ src[i].k = "call"
           /\ Around(src, i - 1, "method") # {}
           /\ Around(src, i - 1, "class") # {}}

\* C5 (drop policy): in a scanned file a call capture that lies in no method
\* or in no class of the file appends no edge, a call without an object
\* appends none either, and the captures after a dropped one are still
\* processed: the file has one method_call edge for every call that has an
\* enclosing class and method entity, and none beyond the calls in scope.
C5_DropPolicy ==
    \A path \in Scanned :
        LET src == SrcOf(path)
            source_code == Bytes(src)
            captures == Captures(src, LangOf(Suffix(path)), "method_calls")
            edges == DepsOf(path, "method_call")
        IN /\ \A k \in 1..Len(captures) :
                 (/\ captures[k].tag = "call"
                  /\ \/ Around(src, captures[k].node.start_byte, "method") = {}
                     \/ Around(src, captures[k].node.start_byte, "class") = {})
                 => CallDependency(captures[k].node, captures, source_code,
                                   entities, path) = << >>
           /\ Len(edges) <= Cardinality(CallsInScope(path))
           /\ Len(edges) = Len(YieldingCalls(path))

\* A scanned file where a call outside any method and a call without an
\* object are dropped and a later call still yields its edge.
C5_Witness ==
    \E path \in Scanned :
        LET src == SrcOf(path)
        IN /\ \E i \in 1..Len(src) :
                 /\ src[i].k \in {"call", "bare"}
                 /\ Around(src, i - 1, "method") = {}
                 /\ \E j \in (i + 1)..Len(src) : j \in CallsInScope(path)
           /\ Len(DepsOf(path, "method_call")) = 1

\* C6 (two-phase order barrier): in the calls of a scan no create_class_node
\* or create_method_node follows a create_dependency, and a dependency is
\* persisted only when the loop over the files is over.
C6_OrderBarrier ==
    /\ \A i, j \in 1..Len(log) :
          (i < j /\ log[i].op = "create_dependency") => log[j].op = "create_dependency"
    /\ LogHas("create_dependency") => fi > Len(files)

\* A scan of two files that registered entities and then persisted an edge.
C6_Witness ==
    /\ Len(files) = 2
    /\ LogHas("create_method_node")
    /\ LogHas("create_dependency")
    /\ \E i \in 1..Len(log) :
          log[i].op = "create_class_node" /\ log[i].args[2] = files[2]

\* The entity part of a store: the Class nodes with a file, the Method nodes
\* with a class and a file, the HAS_METHOD relationships, with their counts.
EntityPart(g) ==
    LET IsEntity(n) == \/ n.label = "Class" /\ "file" \in DOMAIN n.props
                       \/ n.label = "Method" /\ {"class", "file"} \subseteq DOMAIN n.props
    IN [nodes |-> [n \in {x \in BagToSet(g.nodes) : IsEntity(x)} |-> g.nodes[n]],
        rels |-> [r \in {x \in BagToSet(g.rels) : x.type = "HAS_METHOD"} |-> g.rels[r]]]

NoDuplicates(g) ==
    /\ \A n \in BagToSet(g.nodes) : CopiesIn(n, g.nodes) = 1
    /\ \A r \in BagToSet(g.rels) : CopiesIn(r, g.rels) = 1

\* C7 (idempotent persistence): while and after the unchanged files are
\* persisted again, the Class nodes, Method nodes and HAS_METHOD relationships
\* of the store are those the previous scan left, and nothing is in the store
\* twice.
C7_Idempotent ==
    /\ NoDuplicates(graph)
    /\ snap # None => EntityPart(graph) = EntityPart(snap)

\* A second scan that has called create_class_node and create_method_node
\* again for every file.
C7_Witness ==
    /\ snap # None
    /\ pc = "scan"
    /\ fi > Len(files)
    /\ LogHas("create_class_node")
    /\ LogHas("create_method_node")
    /\ \E r \in BagToSet(graph.rels) : r.type = "HAS_METHOD"

\* The path an import statement names: for TypeScript the string without
\* its two quote characters.
StatementPath(tok, lang) ==
    IF lang = "java" THEN tok.path ELSE SubSeq(tok.path, 2, Len(tok.path) - 1)

\* C8 (import edges): a scanned file has exactly one import edge for every
\* import statement, in the order of the file, and the k-th edge carries the
\* path of the k-th statement (TypeScript: without the quotes), whatever the
\* form of the import clause and however many imports the file has.
C8_ImportEdges ==
    \A path \in Scanned :
        LET src == SrcOf(path)
            imports == PositionsOf(src, "import")
            edges == DepsOf(path, "import")
        IN /\ Len(edges) = Len(imports)
           /\ \A k \in 1..Len(edges) :
                 edges[k].import_path = StatementPath(src[imports[k]], LangOf(Suffix(path)))

\* C9 (interface edges per class declaration): in a scanned Java file every
\* class that names interfaces has an inheritance edge, every inheritance
\* edge of class C lists exactly the interfaces of C's own declaration, and
\* none is an edge to a parent class.
C9_OwnInterfaces ==
    \A path \in Scanned :
        Suffix(path) = ".java" =>
            LET src == SrcOf(path)
                edges == DepsOf(path, "inheritance")
            IN /\ \A i \in 1..Len(src) :
                     (src[i].k = "class" /\ src[i].ifaces # << >>) =>
                         \E e \in 1..Len(edges) : edges[e].class = src[i].name
               /\ \A e \in 1..Len(edges) :
                     /\ "parent" \notin DOMAIN edges[e]
                     /\ "interfaces" \in DOMAIN edges[e]
                     /\ \E i \in 1..Len(src) :
                           /\ src[i].k = "class"
                           /\ src[i].name = edges[e].class
                           /\ edges[e].interfaces = src[i].ifaces

\* The file at file_path can be read, has a supported extension and declares
\* a method named method_name.
Declares(file_path, method_name) ==
    /\ Suffix(file_path) \in supported_extensions
    /\ ~ReadFile(dir, file_path).raised
    /\ \E i \in 1..Len(SrcOf(file_path)) :
          SrcOf(file_path)[i].k = "method" /\ SrcOf(file_path)[i].name = method_name

\* The source of the first declaration of the method: bytes start..end.
DeclaredSource(file_path, method_name) ==
    LET src == SrcOf(file_path)
        hits == {i \in 1..Len(src) : src[i].k = "method" /\ src[i].name = method_name}
        i == CHOOSE x \in hits : \A y \in hits : x <= y
        n == NodeAt(src, i, "decl", 0)
    IN Str(SubSeq(src, n.start_byte + 1, n.end_byte))

\* C10 (get_method_source): for a readable file with a supported extension
\* that declares the method the result is the exact source slice of the
\* declaration; the result is None only otherwise.
C10_MethodSource ==
    result # None =>
        IF Declares(result.file_path, result.method_name)
        THEN result.value = DeclaredSource(result.file_path, result.method_name)
        ELSE result.value = None

\* scan_project over the first n files of the scan with the store available
\* to every call, from the empty entities.
RECURSIVE Undisturbed(_)
Undisturbed(n) ==
    IF n = 0
    THEN [entities |-> EmptyEntities, graph |-> EmptyGraph, log |-> << >>,
          fails |-> {}, raised |-> FALSE]
    ELSE ScanFileBody(dir, Undisturbed(n - 1), files[n])

\* C11 (persister unavailability is non-fatal): whichever persister calls
\* find the store unavailable, the scan has, after every file, the classes,
\* methods and dependencies of a scan whose calls all succeeded, it has made
\* the same entity calls with the same arguments, and it ends only by
\* returning, after the last file and the last dependency.
C11_OutageNonFatal ==
    pc \in {"scan", "idle"} =>
        LET ok == Undisturbed(fi - 1)
        IN /\ entities = ok.entities
           /\ Len(log) >= Len(ok.log)
           /\ \A i \in 1..Len(ok.log) :
                 log[i].op = ok.log[i].op /\ log[i].args = ok.log[i].args
           /\ pc = "idle" =>
                 /\ fi > Len(files)
                 /\ di > Len(entities.dependencies)
                 /\ Len(log) = Len(ok.log) + Len(entities.dependencies)

\* A scan that returned although create_class_node failed for the first
\* class: the method in it and the call in the method were still extracted
\* and their persister calls made.
C11_Witness ==
    /\ pc = "idle"
    /\ log # << >>
    /\ log[1].op = "create_class_node" /\ log[1].logged = "error"
    /\ \E j \in 2..Len(log) : log[j].op = "create_method_node"
    /\ \E j \in 2..Len(log) : log[j].op = "create_dependency" /\ log[j].logged = "error"
    /\ entities.dependencies # << >>

\* The import edges of the scan.
ImportEdges ==
    LET IsImport(d) == d.type = "import" IN SelectSeq(entities.dependencies, IsImport)

\* The nodes of the store with a label, counted with their copies.
CountNodes(g, label, props) ==
    LET hit == Matches(g, label, props)
        RECURSIVE Sum(_)
        Sum(S) == IF S = {} THEN 0
                  ELSE LET n == CHOOSE x \in S : TRUE
                       IN CopiesIn(n, g.nodes) + Sum(S \ {n})
    IN Sum(hit)

\* C12 (persisted import linkage): when a scan with the store available has
\* returned (and the store was not cleared since), every import edge {file, import_path} has exactly one Import node with
\* that path, every Class node of the edge's file has exactly one IMPORTS
\* relationship to it, and every IMPORTS relationship goes from a class of a
\* file to a path that an import edge of that file names.
C12_ImportLinkage ==
    (pc = "idle" /\ snap # None) =>
        /\ \A e \in 1..Len(ImportEdges) :
              LET d == ImportEdges[e]
              IN /\ CountNodes(graph, "Import", [path |-> d.import_path]) = 1
                 /\ \A c \in Matches(graph, "Class", [file |-> d.file]) :
                       \A i \in Matches(graph, "Import", [path |-> d.import_path]) :
                           CopiesIn(GRel("IMPORTS", c, i), graph.rels) = 1
        /\ \A r \in BagToSet(graph.rels) :
              r.type = "IMPORTS" =>
                  \E e \in 1..Len(ImportEdges) :
                      /\ "file" \in DOMAIN r.from.props
                      /\ ImportEdges[e].file = r.from.props.file
                      /\ ImportEdges[e].import_path = r.to.props.path

\* The caller of a method_call edge was upserted by create_class_node and
\* create_method_node: its Class node and its Method node are in the store.
CallerUpserted(g, d) ==
    /\ Matches(g, "Class", [name |-> d.caller_class, file |-> d.file]) # {}
    /\ Matches(g, "Method", [name |-> d.caller_method, class |-> d.caller_class,
                             file |-> d.file]) # {}

\* C13 (persisted calls): when a scan with the store available has returned
\* (and the store was not cleared since), every method_call edge whose
\* caller class and caller method were upserted has a CALLS relationship
\* from a Method node of the caller to a Method node named by the callee.
C13_PersistedCalls ==
    (pc = "idle" /\ snap # None) =>
        \A e \in 1..Len(entities.dependencies) :
            LET d == entities.dependencies[e]
            IN (d.type = "method_call" /\ CallerUpserted(graph, d)) =>
                  \E r \in BagToSet(graph.rels) :
                      /\ r.type = "CALLS"
                      /\ r.from.label = "Method" /\ r.from.props.name = d.caller_method
                      /\ r.to.label = "Method" /\ r.to.props.name = d.callee

\* The byte offsets of a file of the model.
Offsets == 0..(2 * MaxNodes)
EntityTypes == {"classes", "methods"}

\* C14 (first-match policy): for every offset, file and entity type,
\* _find_enclosing_entity returns the entity at the least position of the
\* list among those of the given file whose span contains the offset, and
\* None when there is none; so never an entity of another file.
C14_FirstMatch ==
    \A o \in Offsets, entity_type \in EntityTypes :
        \A path \in {dir[i].path : i \in 1..Len(dir)} :
            LET list == entities[entity_type]
                hits == {i \in 1..Len(list) :
                            /\ list[i].file = path
                            /\ list[i].start_byte <= o
                            /\ o < list[i].end_byte}
                found == _find_enclosing_entity(o, entities, path, entity_type)
            IN IF hits = {}
               THEN found = None
               ELSE \E i \in hits : found = list[i] /\ \A j \in hits : i <= j

\* A scan of two files and an offset that lies in two nested methods of the
\* second file and in the span of a class of the first file: the outer
\* method, emitted first, is the one found for the second file.
C14_Witness ==
    /\ Len(files) = 2
    /\ fi > 2
    /\ \E o \in Offsets :
          LET list == entities.methods
              found == _find_enclosing_entity(o, entities, files[2], "methods")
          IN /\ \E i, j \in 1..Len(list) :
                    /\ i < j
                    /\ found = list[i]
                    /\ list[j].file = files[2]
                    /\ list[j].start_byte <= o /\ o < list[j].end_byte
             /\ \E c \in 1..Len(entities.classes) :
                    /\ entities.classes[c].file = files[1]
                    /\ entities.classes[c].start_byte <= o
                    /\ o < entities.classes[c].end_byte

\* _extract_entities alone over the first n files of the scan: the
\* iterations of scan_project without their queries.
RECURSIVE ExtractedOnly(_)
ExtractedOnly(n) ==
    IF n = 0
    THEN [entities |-> EmptyEntities, graph |-> EmptyGraph, log |-> << >>,
          fails |-> {}, raised |-> FALSE]
    ELSE IF Suffix(files[n]) \notin supported_extensions
    THEN ExtractedOnly(n - 1)
    ELSE _extract_entities(_parse_file(dir, files[n]).value, ReadFile(dir, files[n]).value,
                           ExtractedOnly(n - 1), files[n])

IsPrefix(s, t) == Len(s) <= Len(t) /\ SubSeq(t, 1, Len(s)) = s

\* C15 (frame of dependency extraction): during and after a scan the
\* classes and methods are those _extract_entities emitted, untouched by the
\* _process_dependency calls made since; up to the end of the loop over the
\* files the persister calls are those of _extract_entities; and
\* _process_dependency applied to the entities of the state, for any query
\* of any scanned file, returns the same classes and methods and extends
\* the dependencies at the end only, also when the list already holds the
\* edges of an earlier call.
C15_Frame ==
    pc \in {"scan", "idle"} =>
        LET extracted == ExtractedOnly(fi - 1)
        IN /\ entities.classes = extracted.entities.classes
           /\ entities.methods = extracted.entities.methods
           /\ IsPrefix(extracted.log, log)
           /\ \A i \in (Len(extracted.log) + 1)..Len(log) : log[i].op = "create_dependency"
           /\ \A path \in Scanned :
                 \A q \in 1..Len(QueryTypes) :
                     LET lang == LangOf(Suffix(path))
                         captures == Captures(SrcOf(path), lang, QueryTypes[q])
                         after == _process_dependency(captures, lang, Bytes(SrcOf(path)),
                                                      entities, path)
                         again == _process_dependency(captures, lang, Bytes(SrcOf(path)),
                                                      after, path)
                         new == SubSeq(after.dependencies, Len(entities.dependencies) + 1,
                                       Len(after.dependencies))
                     IN /\ after.classes = entities.classes
                        /\ after.methods = entities.methods
                        /\ IsPrefix(entities.dependencies, after.dependencies)
                        /\ again.classes = entities.classes
                        /\ again.methods = entities.methods
                        /\ again.dependencies = after.dependencies \o new

\* A scan that extracted a class and a method and whose _process_dependency
\* appended an edge for a call.
C15_Witness ==
    /\ pc = "scan"
    /\ fi > Len(files)
    /\ entities.classes # << >>
    /\ entities.methods # << >>
    /\ \E e \in 1..Len(entities.dependencies) : entities.dependencies[e].type = "method_call"

====
